---- MODULE Spec2Model ----
(***************************************************************************)
(* A model of the agentvault program (programs/agentvault/src/lib.rs): an   *)
(* on-chain registry of agent profiles and skill endorsements.              *)
(*                                                                          *)
(* Every instruction is one atomic transaction.  The account constraints   *)
(* of its #[derive(Accounts)] struct run first (accounts that are not      *)
(* `init` are loaded, then `init` accounts are created, then the other     *)
(* constraints are checked), then the handler body runs, then the accounts *)
(* are written back.  An error at any point discards every change of the   *)
(* transaction.                                                            *)
(*                                                                          *)
(* Records live at program-derived addresses: an address is modelled as    *)
(* the tuple of its seeds, the store of each record kind as a function     *)
(* whose domain is the set of occupied addresses.                          *)
(***************************************************************************)
EXTENDS Integers, Sequences, FiniteSets, TLC

VARIABLES
    registry_stats,   \* occupied singleton address -> RegistryStats
    agent_profile,    \* owner identity (seed of the address) -> AgentProfile
    endorsement,      \* <<endorser, target, skill>> -> Endorsement
    clock,            \* Clock::get()?.unix_timestamp
    ntx,              \* committed transactions, counted up to MaxTx
    emitted,          \* events logged by the last transaction
    result            \* the last instruction and its outcome

vars == <<registry_stats, agent_profile, endorsement, clock, ntx, emitted, result>>

store == <<registry_stats, agent_profile, endorsement>>

----------------------------------------------------------------------------
(* Bounds of the model *)

MaxClock == 1
MaxTx == 3

(* Constants of the program *)

MaxNameLen == 32
MaxUriLen == 200
MaxSkills == 10
MaxSkillLen == 32
BaseReputation == 50
MaxReputation == 100
ReputationStep == 2
MaxSeedLen == 32

----------------------------------------------------------------------------
(* Inputs *)

Identity == {"A", "B"}

Name33 == "agent-name-of-thirty-three-chars!"
Skill33 == "skill-name-of-thirty-three-chars!"
Uri201 == "ipfs://0123456789012345678901234567890123456789012345678901234567890123456789012345678901234567890123456789012345678901234567890123456789012345678901234567890123456789012345678901234567890123456789-201"

Skills11 == <<"s1", "s2", "s3", "s4", "s5", "s6", "s7", "s8", "s9", "s10", "s11">>

NameInputs == {"alice", Name33}
UriInputs == {"ipfs://a", Uri201}
SkillInputs == {"rust", "go", Skill33}
SkillsInputs == {<<"rust", "go">>, Skills11}

None == <<>>
Some(x) == <<x>>
IsSome(o) == Len(o) = 1
Unwrap(o) == o[1]

(* update_profile(metadata_uri, skills) *)
UpdateInputs ==
    {<<Some("ipfs://b"), None>>,
     <<None, Some(<<"go">>)>>,
     <<None, Some(<<Skill33>>)>>,
     <<Some(Uri201), Some(<<"go">>)>>,
     <<Some("ipfs://b"), Some(Skills11)>>}

REGISTRY == "registry_stats"

----------------------------------------------------------------------------
(* Helpers *)

Unclamped(a, b) == b

Min(a, b) == IF a <= b THEN a ELSE b

SaturatingSub(a, b) == IF a >= b THEN a - b ELSE 0

Contains(seq, x) == \E i \in 1..Len(seq) : seq[i] = x

RECURSIVE VecStringSize(_)
VecStringSize(v) ==
    IF v = <<>> THEN 0 ELSE (4 + Len(Head(v))) + VecStringSize(Tail(v))

(* Bytes of the borsh encoding of an AgentProfile, and the bytes the account *)
(* was allocated with (AgentProfile::INIT_SPACE).                            *)
SerializedSize(agent) ==
    32 + (4 + Len(agent.name)) + (4 + Len(agent.metadata_uri))
       + (4 + VecStringSize(agent.skills)) + 1 + 4 + 8 + 8 + 1

AgentProfileSpace ==
    32 + (4 + MaxNameLen) + (4 + MaxUriLen)
       + (4 + MaxSkills * (4 + MaxSkillLen)) + 1 + 4 + 8 + 8 + 1

Fits(agent) == SerializedSize(agent) <= AgentProfileSpace

Ok == "Ok"

(* The last instruction as the ledger shows it: its accounts and inputs,   *)
(* its outcome, and for an endorsement or a revocation the reputation and  *)
(* endorsements_received the target had before it.                         *)
Call(op, signer, target, skill, err) ==
    [op |-> op, signer |-> signer, target |-> target, skill |-> skill,
     err |-> err, before |-> <<>>]

Put(records, addr, record) ==
    [a \in DOMAIN records \cup {addr} |-> IF a = addr THEN record ELSE records[a]]

NotClosed(records, addr) == records

Close(records, addr) == [a \in DOMAIN records \ {addr} |-> records[a]]

----------------------------------------------------------------------------
Init ==
    /\ registry_stats = <<>>
    /\ agent_profile = <<>>
    /\ endorsement = <<>>
    /\ clock = 0
    /\ ntx = 0
    /\ emitted = <<>>
    /\ result = Call("none", "-", "-", "-", Ok)


----------------------------------------------------------------------------
(* The ledger: an instruction that returns an error changes nothing. *)

Aborts(err) == err # Ok

TransactionNoRollback(call, new_stats, new_profiles, new_endorsements, events) ==
    /\ result' = IF Aborts(call.err) THEN Call(call.op, "-", "-", "-", call.err)
                  ELSE call
    /\ Aborts(call.err) \/ ntx < MaxTx
    /\ registry_stats' = new_stats
    /\ agent_profile' = new_profiles
    /\ endorsement' = new_endorsements
    /\ ntx' = IF Aborts(call.err) THEN ntx ELSE ntx + 1
    /\ emitted' = events
    /\ UNCHANGED clock

Transaction(call, new_stats, new_profiles, new_endorsements, events) ==
    /\ result' = IF Aborts(call.err) THEN Call(call.op, "-", "-", "-", call.err)
                  ELSE IF call.op \in {"endorse_skill", "revoke_endorsement"}
                  THEN [call EXCEPT !.before =
                          <<agent_profile[call.target].reputation,
                            agent_profile[call.target].endorsements_received>>]
                  ELSE call
    /\ IF Aborts(call.err)
       THEN /\ UNCHANGED <<registry_stats, agent_profile, endorsement, ntx>>
            /\ emitted' = <<>>
       ELSE /\ ntx < MaxTx
            /\ registry_stats' = new_stats
            /\ agent_profile' = new_profiles
            /\ endorsement' = new_endorsements
            /\ ntx' = ntx + 1
            /\ emitted' = events
    /\ UNCHANGED clock

(* What a handler has reached: the error it returned (or Ok), the records  *)
(* as it has written them so far, the events it has emitted so far.        *)
Reached(err, stats, profiles, endorsements, events) ==
    [err |-> err, stats |-> stats, profiles |-> profiles,
     endorsements |-> endorsements, events |-> events]

(* Account::exit: the account is serialized back into its allocation. *)
Exit(r, p) ==
    IF r.err = Ok /\ ~Fits(r.profiles[p])
    THEN [r EXCEPT !.err = "AccountDidNotSerialize"]
    ELSE r

----------------------------------------------------------------------------
(* initialize_registry *)

InitializeRegistryAgain(authority) == Ok

InitializeRegistry(authority) ==
    IF REGISTRY \in DOMAIN registry_stats THEN "AccountAlreadyInUse" ELSE Ok

initialize_registry_handler(authority) ==
    Reached(Ok,
            REGISTRY :> [total_agents |-> 0, total_endorsements |-> 0,
                         authority |-> authority],
            agent_profile, endorsement, <<>>)

initialize_registry_run(authority) ==
    LET acc == InitializeRegistry(authority)
    IN  IF acc # Ok
        THEN Reached(acc, registry_stats, agent_profile, endorsement, <<>>)
        ELSE initialize_registry_handler(authority)

initialize_registry(authority) ==
    LET r == initialize_registry_run(authority)
    IN Transaction(Call("initialize_registry", authority, "-", "-", r.err),
                   r.stats, r.profiles, r.endorsements, r.events)

----------------------------------------------------------------------------
(* register_agent *)

RegisterAgentIfNeeded(owner) ==
    IF REGISTRY \notin DOMAIN registry_stats THEN "AccountNotInitialized" ELSE Ok

RegisterAgent(owner) ==
    IF REGISTRY \notin DOMAIN registry_stats THEN "AccountNotInitialized"
    ELSE IF owner \in DOMAIN agent_profile THEN "AccountAlreadyInUse"
    ELSE Ok

NewAgentNoBase(owner, name, metadata_uri, skills, now) ==
    [wallet |-> owner,
     name |-> name,
     metadata_uri |-> metadata_uri,
     skills |-> skills,
     reputation |-> 0,
     endorsements_received |-> 0,
     registered_at |-> now,
     last_active |-> now]

NewAgent(owner, name, metadata_uri, skills, now) ==
    [wallet |-> owner,
     name |-> name,
     metadata_uri |-> metadata_uri,
     skills |-> skills,
     reputation |-> BaseReputation,
     endorsements_received |-> 0,
     registered_at |-> now,
     last_active |-> now]

register_agent_uncounted(owner, name, metadata_uri, skills) ==
    LET agent == NewAgent(owner, name, metadata_uri, skills, clock)
        event == [event |-> "AgentRegistered", wallet |-> owner,
                  name |-> name, timestamp |-> clock]
        fail(e) == Reached(e, registry_stats, agent_profile, endorsement, <<>>)
    IN  IF Len(name) > MaxNameLen THEN fail("NameTooLong")
        ELSE IF Len(metadata_uri) > MaxUriLen THEN fail("MetadataUriTooLong")
        ELSE IF Len(skills) > MaxSkills THEN fail("TooManySkills")
        ELSE Reached(Ok, registry_stats, Put(agent_profile, owner, agent),
                     endorsement, <<event>>)

register_agent_handler(owner, name, metadata_uri, skills) ==
    LET agent == NewAgent(owner, name, metadata_uri, skills, clock)
        stats == [registry_stats EXCEPT ![REGISTRY].total_agents = @ + 1]
        event == [event |-> "AgentRegistered", wallet |-> owner,
                  name |-> name, timestamp |-> clock]
        fail(e) == Reached(e, registry_stats, agent_profile, endorsement, <<>>)
    IN  IF Len(name) > MaxNameLen THEN fail("NameTooLong")
        ELSE IF Len(metadata_uri) > MaxUriLen THEN fail("MetadataUriTooLong")
        ELSE IF Len(skills) > MaxSkills THEN fail("TooManySkills")
        ELSE Reached(Ok, stats, Put(agent_profile, owner, agent),
                     endorsement, <<event>>)

register_agent_run(owner, name, metadata_uri, skills) ==
    LET acc == RegisterAgent(owner)
    IN  IF acc # Ok
        THEN Reached(acc, registry_stats, agent_profile, endorsement, <<>>)
        ELSE Exit(register_agent_handler(owner, name, metadata_uri, skills), owner)

register_agent(owner, name, metadata_uri, skills) ==
    LET r == register_agent_run(owner, name, metadata_uri, skills)
    IN Transaction(Call("register_agent", owner, owner, "-", r.err),
                   r.stats, r.profiles, r.endorsements, r.events)

----------------------------------------------------------------------------
(* update_profile *)

UpdateProfileUnchecked(owner, p) ==
    IF p \notin DOMAIN agent_profile THEN "AccountNotInitialized" ELSE Ok

UpdateProfile(owner, p) ==
    IF p \notin DOMAIN agent_profile THEN "AccountNotInitialized"
    ELSE IF p # owner THEN "ConstraintSeeds"
    ELSE IF agent_profile[p].wallet # owner THEN "Unauthorized"
    ELSE Ok

update_profile_overwriting(p, metadata_uri, skills) ==
    LET at(agent) == [agent_profile EXCEPT ![p] = agent]
        a0 == agent_profile[p]
        a1 == IF IsSome(metadata_uri)
              THEN [a0 EXCEPT !.metadata_uri = Unwrap(metadata_uri)] ELSE a0
        a2 == IF IsSome(skills)
              THEN [a1 EXCEPT !.skills = Unwrap(skills)]
              ELSE [a1 EXCEPT !.skills = <<>>]
        a3 == [a2 EXCEPT !.last_active = clock]
        event == [event |-> "ProfileUpdated", wallet |-> a3.wallet,
                  timestamp |-> clock]
    IN  IF IsSome(metadata_uri) /\ Len(Unwrap(metadata_uri)) > MaxUriLen
        THEN Reached("MetadataUriTooLong", registry_stats, at(a0), endorsement, <<>>)
        ELSE IF IsSome(skills) /\ Len(Unwrap(skills)) > MaxSkills
        THEN Reached("TooManySkills", registry_stats, at(a1), endorsement, <<>>)
        ELSE Reached(Ok, registry_stats, at(a3), endorsement, <<event>>)

update_profile_handler(p, metadata_uri, skills) ==
    LET at(agent) == [agent_profile EXCEPT ![p] = agent]
        a0 == agent_profile[p]
        a1 == IF IsSome(metadata_uri)
              THEN [a0 EXCEPT !.metadata_uri = Unwrap(metadata_uri)] ELSE a0
        a2 == IF IsSome(skills)
              THEN [a1 EXCEPT !.skills = Unwrap(skills)] ELSE a1
        a3 == [a2 EXCEPT !.last_active = clock]
        event == [event |-> "ProfileUpdated", wallet |-> a3.wallet,
                  timestamp |-> clock]
    IN  IF IsSome(metadata_uri) /\ Len(Unwrap(metadata_uri)) > MaxUriLen
        THEN Reached("MetadataUriTooLong", registry_stats, at(a0), endorsement, <<>>)
        ELSE IF IsSome(skills) /\ Len(Unwrap(skills)) > MaxSkills
        THEN Reached("TooManySkills", registry_stats, at(a1), endorsement, <<>>)
        ELSE Reached(Ok, registry_stats, at(a3), endorsement, <<event>>)

update_profile_run(owner, p, metadata_uri, skills) ==
    LET acc == UpdateProfile(owner, p)
    IN  IF acc # Ok
        THEN Reached(acc, registry_stats, agent_profile, endorsement, <<>>)
        ELSE Exit(update_profile_handler(p, metadata_uri, skills), p)

update_profile(owner, p, metadata_uri, skills) ==
    LET r == update_profile_run(owner, p, metadata_uri, skills)
    IN Transaction(Call("update_profile", owner, p, "-", r.err),
                   r.stats, r.profiles, r.endorsements, r.events)

----------------------------------------------------------------------------
(* endorse_skill *)

EndorseSkillUnoccupied(endorser, p, t, skill) ==
    IF p \notin DOMAIN agent_profile THEN "AccountNotInitialized"
    ELSE IF t \notin DOMAIN agent_profile THEN "AccountNotInitialized"
    ELSE IF Len(skill) > MaxSeedLen THEN "MaxSeedLengthExceeded"
    ELSE IF p # endorser THEN "ConstraintSeeds"
    ELSE IF <<endorser, agent_profile[t].wallet, skill>> \in DOMAIN endorsement
            /\ Contains(agent_profile[t].skills, skill)
         THEN "AccountAlreadyInUse"
    ELSE Ok

(* Accounts: the signer `endorser`, `endorser_profile` at address p,       *)
(* `target_agent` at address t, and the new `endorsement` at the address   *)
(* derived from (endorser, target_agent.wallet, skill).                    *)
EndorseSkill(endorser, p, t, skill) ==
    IF p \notin DOMAIN agent_profile THEN "AccountNotInitialized"
    ELSE IF t \notin DOMAIN agent_profile THEN "AccountNotInitialized"
    ELSE IF Len(skill) > MaxSeedLen THEN "MaxSeedLengthExceeded"
    ELSE IF <<endorser, agent_profile[t].wallet, skill>> \in DOMAIN endorsement
         THEN "AccountAlreadyInUse"
    ELSE IF p # endorser THEN "ConstraintSeeds"
    ELSE Ok

NeverSelf(endorser, target_agent) == FALSE

SelfEndorsement(endorser, target_agent) == endorser = target_agent.wallet

AlwaysDeclared(target_agent, skill) == TRUE

Declared(target_agent, skill) == Contains(target_agent.skills, skill)

NewEndorsement(endorser, target_agent, skill, now) ==
    [endorser |-> endorser,
     target |-> target_agent.wallet,
     skill |-> skill,
     timestamp |-> now]

EndorsedUncounted(target_agent, now) ==
    [target_agent EXCEPT
        !.reputation = Min(MaxReputation, @ + ReputationStep),
        !.last_active = now]

Endorsed(target_agent, now) ==
    [target_agent EXCEPT
        !.endorsements_received = @ + 1,
        !.reputation = Min(MaxReputation, @ + ReputationStep),
        !.last_active = now]

NotActive(endorser_profile, now) == endorser_profile

Active(endorser_profile, now) == [endorser_profile EXCEPT !.last_active = now]

endorse_skill_counted(endorser, p, t, skill) ==
    LET target_agent == agent_profile[t]
        record == NewEndorsement(endorser, target_agent, skill, clock)
        records == Put(endorsement, <<endorser, target_agent.wallet, skill>>, record)
        p1 == [agent_profile EXCEPT ![t] = Endorsed(target_agent, clock)]
        p2 == [p1 EXCEPT ![p] = Active(p1[p], clock)]
        stats == [registry_stats EXCEPT ![REGISTRY].total_endorsements = @ + 1]
        event == [event |-> "SkillEndorsed", endorser |-> endorser,
                  target |-> target_agent.wallet, skill |-> skill,
                  timestamp |-> clock]
        fail(e) == Reached(e, registry_stats, agent_profile, endorsement, <<>>)
    IN  IF Len(skill) > MaxSkillLen THEN fail("SkillNameTooLong")
        ELSE IF SelfEndorsement(endorser, target_agent) THEN fail("CannotEndorseSelf")
        ELSE IF ~Declared(target_agent, skill) THEN fail("SkillNotDeclared")
        ELSE Reached(Ok, stats, p2, records, <<event>>)

endorse_skill_handler(endorser, p, t, skill) ==
    LET target_agent == agent_profile[t]
        record == NewEndorsement(endorser, target_agent, skill, clock)
        records == Put(endorsement, <<endorser, target_agent.wallet, skill>>, record)
        p1 == [agent_profile EXCEPT ![t] = Endorsed(target_agent, clock)]
        p2 == [p1 EXCEPT ![p] = Active(p1[p], clock)]
        event == [event |-> "SkillEndorsed", endorser |-> endorser,
                  target |-> target_agent.wallet, skill |-> skill,
                  timestamp |-> clock]
        fail(e) == Reached(e, registry_stats, agent_profile, endorsement, <<>>)
    IN  IF Len(skill) > MaxSkillLen THEN fail("SkillNameTooLong")
        ELSE IF SelfEndorsement(endorser, target_agent) THEN fail("CannotEndorseSelf")
        ELSE IF ~Declared(target_agent, skill) THEN fail("SkillNotDeclared")
        ELSE Reached(Ok, registry_stats, p2, records, <<event>>)

endorse_skill_run(endorser, p, t, skill) ==
    LET acc == EndorseSkill(endorser, p, t, skill)
    IN  IF acc # Ok
        THEN Reached(acc, registry_stats, agent_profile, endorsement, <<>>)
        ELSE endorse_skill_handler(endorser, p, t, skill)

endorse_skill(endorser, p, t, skill) ==
    LET r == endorse_skill_run(endorser, p, t, skill)
    IN Transaction(Call("endorse_skill", endorser, t, skill, r.err),
                   r.stats, r.profiles, r.endorsements, r.events)

----------------------------------------------------------------------------
(* revoke_endorsement *)

(* Accounts: the signer `endorser`, the `endorsement` at address addr and  *)
(* `target_agent` at address t.                                            *)
RevokeEndorsementUnchecked(endorser, addr, t) ==
    IF addr \notin DOMAIN endorsement THEN "AccountNotInitialized"
    ELSE IF t \notin DOMAIN agent_profile THEN "AccountNotInitialized"
    ELSE Ok

RevokeEndorsementConflated(endorser, addr, t) ==
    IF addr \notin DOMAIN endorsement THEN "ConstraintSeeds"
    ELSE IF t \notin DOMAIN agent_profile THEN "AccountNotInitialized"
    ELSE IF addr # <<endorser, agent_profile[t].wallet, endorsement[addr].skill>>
         THEN "ConstraintSeeds"
    ELSE IF endorsement[addr].endorser # endorser THEN "ConstraintHasOne"
    ELSE Ok

RevokeEndorsement(endorser, addr, t) ==
    IF addr \notin DOMAIN endorsement THEN "AccountNotInitialized"
    ELSE IF t \notin DOMAIN agent_profile THEN "AccountNotInitialized"
    ELSE IF addr # <<endorser, agent_profile[t].wallet, endorsement[addr].skill>>
         THEN "ConstraintSeeds"
    ELSE IF endorsement[addr].endorser # endorser THEN "ConstraintHasOne"
    ELSE Ok

RevokedAndActive(target_agent) ==
    [target_agent EXCEPT
        !.endorsements_received = SaturatingSub(@, 1),
        !.reputation = SaturatingSub(@, ReputationStep),
        !.last_active = clock]

RevokedByOne(target_agent) ==
    [target_agent EXCEPT
        !.endorsements_received = SaturatingSub(@, 1),
        !.reputation = SaturatingSub(@, 1)]

Revoked(target_agent) ==
    [target_agent EXCEPT
        !.endorsements_received = SaturatingSub(@, 1),
        !.reputation = SaturatingSub(@, ReputationStep)]

revoke_endorsement_handler(endorser, addr, t) ==
    LET record == endorsement[addr]
        target == Revoked(agent_profile[t])
        event == [event |-> "EndorsementRevoked", endorser |-> record.endorser,
                  target |-> record.target, skill |-> record.skill,
                  timestamp |-> clock]
    IN  Reached(Ok, registry_stats, [agent_profile EXCEPT ![t] = target],
                Close(endorsement, addr), <<event>>)

revoke_endorsement_run(endorser, addr, t) ==
    LET acc == RevokeEndorsement(endorser, addr, t)
    IN  IF acc # Ok
        THEN Reached(acc, registry_stats, agent_profile, endorsement, <<>>)
        ELSE revoke_endorsement_handler(endorser, addr, t)

revoke_endorsement(endorser, addr, t) ==
    LET r == revoke_endorsement_run(endorser, addr, t)
    IN Transaction(Call("revoke_endorsement", endorser, t, addr[3], r.err),
                   r.stats, r.profiles, r.endorsements, r.events)

----------------------------------------------------------------------------
(* The clock of the ledger is non-decreasing. *)

Tick ==
    /\ clock < MaxClock
    /\ clock' = clock + 1
    /\ UNCHANGED <<registry_stats, agent_profile, endorsement, ntx, emitted, result>>

SkillSeeds == {s \in SkillInputs : Len(s) <= MaxSeedLen}

NextOver(ids) ==
    \/ \E authority \in ids : initialize_registry(authority)
    \/ \E owner \in ids, name \in NameInputs, metadata_uri \in UriInputs,
          skills \in SkillsInputs :
            register_agent(owner, name, metadata_uri, skills)
    \/ \E owner \in ids, p \in ids, in \in UpdateInputs :
            update_profile(owner, p, in[1], in[2])
    \/ \E endorser \in ids, p \in ids, t \in ids, skill \in SkillInputs :
            endorse_skill(endorser, p, t, skill)
    \/ \E endorser \in ids, addr \in ids \X ids \X SkillSeeds, t \in ids :
            revoke_endorsement(endorser, addr, t)
    \/ Tick

Next == NextOver(Identity)

Spec == Init /\ [][Next]_vars

----------------------------------------------------------------------------
(* The registry after initialize_registry by A and the registration of A  *)
(* and B, all at time 0; Fresh(n) leaves MaxTx - n transactions to explore. *)

Registered(owner) ==
    [wallet |-> owner, name |-> "alice", metadata_uri |-> "ipfs://a",
     skills |-> <<"rust", "go">>, reputation |-> BaseReputation,
     endorsements_received |-> 0, registered_at |-> 0, last_active |-> 0]

Fresh(n) ==
    /\ registry_stats = (REGISTRY :> [total_agents |-> 2, total_endorsements |-> 0,
                                      authority |-> "A"])
    /\ agent_profile = [owner \in Identity |-> Registered(owner)]
    /\ endorsement = <<>>
    /\ clock = 0
    /\ ntx = n
    /\ emitted = <<>>
    /\ result = Call("none", "-", "-", "-", Ok)

InitRegistered == Fresh(0)

SpecRegistered == InitRegistered /\ [][Next]_vars


----------------------------------------------------------------------------
(* The same registry after B has endorsed the skill "rust" of A, when a    *)
(* third identity C turns up; the run explores its last two transactions.  *)

InitJoin ==
    /\ registry_stats = (REGISTRY :> [total_agents |-> 2, total_endorsements |-> 0,
                                      authority |-> "A"])
    /\ agent_profile = ("A" :> Endorsed(Registered("A"), 0))
                     @@ ("B" :> Active(Registered("B"), 0))
    /\ endorsement =
          (<<"B", "A", "rust">> :> NewEndorsement("B", Registered("A"), "rust", 0))
    /\ clock = 0
    /\ ntx = MaxTx - 2
    /\ emitted = <<>>
    /\ result = Call("none", "-", "-", "-", Ok)

Newcomers == Identity \cup {"C"}

SpecJoin == InitJoin /\ [][NextOver(Newcomers)]_vars

----------------------------------------------------------------------------
(* The ledger from its first transaction on, and the same ledger later,    *)
(* when A and B have registered and B has endorsed A.                      *)

SpecLife == (Init \/ InitJoin) /\ [][Next]_vars

----------------------------------------------------------------------------
(* The fresh registry with two more kinds of update_profile: both fields   *)
(* supplied, and none.                                                     *)

MoreUpdateInputs == {<<Some("ipfs://c"), Some(<<"rust">>)>>, <<None, None>>}

NextUpdate ==
    \/ Next
    \/ \E owner \in Identity, p \in Identity, in \in MoreUpdateInputs :
            update_profile(owner, p, in[1], in[2])

SpecUpdate == Fresh(1) /\ [][NextUpdate]_vars

----------------------------------------------------------------------------
(* Three registered agents, A endorsed by B; the run explores the next two *)
(* transactions.                                                           *)

InitCrowd ==
    /\ registry_stats = (REGISTRY :> [total_agents |-> 3, total_endorsements |-> 0,
                                      authority |-> "A"])
    /\ agent_profile = ("A" :> Endorsed(Registered("A"), 0))
                     @@ ("B" :> Active(Registered("B"), 0))
                     @@ ("C" :> Registered("C"))
    /\ endorsement =
          (<<"B", "A", "rust">> :> NewEndorsement("B", Registered("A"), "rust", 0))
    /\ clock = 0
    /\ ntx = MaxTx - 2
    /\ emitted = <<>>
    /\ result = Call("none", "-", "-", "-", Ok)

SpecCrowd == InitCrowd /\ [][NextOver(Newcomers)]_vars

----------------------------------------------------------------------------
(* A registry late in its life, at time 0.  B has endorsed 25 skills that  *)
(* A declared at the time (update_profile replaces the skills, the records *)
(* stay), so A has reputation 50 + 25 * 2 = 100.  A has endorsed 51 skills *)
(* of B, the last 26 of them with B already at 100, and has revoked 50 of  *)
(* them again, so B has reputation 100 - 50 * 2 = 0 and one record left.   *)
(* The run explores the next two transactions of this registry and of the *)
(* fresh one.                                                              *)

FillerSkills ==
    {"f01", "f02", "f03", "f04", "f05", "f06", "f07", "f08", "f09", "f10",
     "f11", "f12", "f13", "f14", "f15", "f16", "f17", "f18", "f19", "f20",
     "f21", "f22", "f23", "f24", "f25"}

Record(endorser, target, skill) ==
    [endorser |-> endorser, target |-> target, skill |-> skill, timestamp |-> 0]

InitRep ==
    /\ registry_stats = (REGISTRY :> [total_agents |-> 2, total_endorsements |-> 0,
                                      authority |-> "A"])
    /\ agent_profile =
          ("A" :> [Registered("A") EXCEPT
                      !.reputation = MaxReputation,
                      !.endorsements_received = Cardinality(FillerSkills)])
       @@ ("B" :> [Registered("B") EXCEPT
                      !.reputation = 0, !.endorsements_received = 1])
    /\ endorsement =
          [a \in ({"B"} \X {"A"} \X FillerSkills) \cup {<<"A", "B", "rust">>}
              |-> Record(a[1], a[2], a[3])]
    /\ clock = 0
    /\ ntx = 1
    /\ emitted = <<>>
    /\ result = Call("none", "-", "-", "-", Ok)

SpecRep == (InitRep \/ Fresh(1)) /\ [][Next]_vars

----------------------------------------------------------------------------
(* Steps, as the ledger shows them *)

(* a transaction of instruction op was committed in this step *)
Committed(op) == ntx' = ntx + 1 /\ result'.op = op

----------------------------------------------------------------------------
(* C1: in every reachable state every profile's reputation is in [0,100];  *)
(* a successful endorse_skill on a target at reputation 100 leaves it at   *)
(* 100, and a successful revoke_endorsement on a target at reputation 0 or *)
(* 1 leaves it at 0.                                                       *)

C1_InRange ==
    \A a \in DOMAIN agent_profile :
        agent_profile[a].reputation \in 0..MaxReputation

C1_Clamped ==
    LET t == result'.target
    IN  /\ Committed("endorse_skill") /\ agent_profile[t].reputation = MaxReputation
            => agent_profile'[t].reputation = MaxReputation
        /\ Committed("revoke_endorsement") /\ agent_profile[t].reputation <= 1
            => agent_profile'[t].reputation = 0

C1_ReputationBounded == []C1_InRange /\ [][C1_Clamped]_vars

(* A was endorsed once more at reputation 100 and B lost its last          *)
(* endorsement at reputation 0.                                            *)
C1_Witness ==
    /\ result.op = "endorse_skill" /\ result.err = Ok /\ result.target = "A"
    /\ result.before[1] = MaxReputation
    /\ agent_profile["A"].reputation = MaxReputation
    /\ agent_profile["A"].endorsements_received = Cardinality(FillerSkills) + 1
    /\ agent_profile["B"].reputation = 0
    /\ agent_profile["B"].endorsements_received = 0
    /\ <<"A", "B", "rust">> \notin DOMAIN endorsement

----------------------------------------------------------------------------
(* C2: for every (endorser, target, skill) at most one Endorsement record  *)
(* exists at any time: while the record exists, endorse_skill on the       *)
(* triple fails because the address is occupied (DuplicateEndorsement) and *)
(* leaves the target unchanged; after a successful revoke_endorsement of   *)
(* the record, endorse_skill on the triple succeeds again.                 *)

(* every record lies at the address derived from its own triple *)
C2_AtAddress ==
    \A a \in DOMAIN endorsement :
        a = <<endorsement[a].endorser, endorsement[a].target, endorsement[a].skill>>

C2_Duplicate ==
    clock' = clock /\ result'.op = "endorse_skill" =>
        \A e \in Newcomers, t \in Newcomers, s \in SkillInputs :
            <<e, t, s>> \in DOMAIN endorsement /\ endorse_skill(e, e, t, s)
                => result'.err = "AccountAlreadyInUse" /\ UNCHANGED store

JustRevoked == result.op = "revoke_endorsement" /\ result.err = Ok

EndorseAgain == endorse_skill_run(result.signer, result.signer, result.target, result.skill)

(* the claim as stated: after the revoke the endorsement succeeds again *)
C2_SucceedsAgain == JustRevoked => EndorseAgain.err = Ok

C2_AsStated == []C2_AtAddress /\ []C2_SucceedsAgain /\ [][C2_Duplicate]_vars

(* C2 amended: after the revoke the address is free again, and             *)
(* endorse_skill on the triple succeeds if the target still declares the   *)
(* skill and fails with SkillNotDeclared if it has removed it meanwhile.   *)
C2_FreeAgain ==
    JustRevoked =>
        /\ <<result.signer, result.target, result.skill>> \notin DOMAIN endorsement
        /\ EndorseAgain.err =
              IF Declared(agent_profile[result.target], result.skill)
              THEN Ok ELSE "SkillNotDeclared"

C2_OnePerTriple == []C2_AtAddress /\ []C2_FreeAgain /\ [][C2_Duplicate]_vars

(* B's endorsement of A was revoked and B can endorse the skill again *)
C2_Witness ==
    /\ JustRevoked
    /\ result.before = <<BaseReputation + ReputationStep, 1>>
    /\ Declared(agent_profile[result.target], result.skill)
    /\ EndorseAgain.err = Ok

----------------------------------------------------------------------------
(* C3: a successful register_agent(owner, name, metadata_uri, skills)      *)
(* creates the profile at address(agent, owner) with wallet = owner, the   *)
(* given name, metadata_uri and skills, reputation 50, no endorsements     *)
(* received, registered_at = last_active = now; it adds exactly 1 to       *)
(* total_agents and changes no other profile and no endorsement record.    *)

C3_Registered ==
    Committed("register_agent") =>
        \A owner \in Newcomers, name \in NameInputs, metadata_uri \in UriInputs,
           skills \in SkillsInputs :
            register_agent(owner, name, metadata_uri, skills) =>
                /\ owner \notin DOMAIN agent_profile
                /\ DOMAIN agent_profile' = DOMAIN agent_profile \cup {owner}
                /\ agent_profile'[owner] =
                      [wallet |-> owner, name |-> name,
                       metadata_uri |-> metadata_uri, skills |-> skills,
                       reputation |-> 50, endorsements_received |-> 0,
                       registered_at |-> clock, last_active |-> clock]
                /\ \A a \in DOMAIN agent_profile : agent_profile'[a] = agent_profile[a]
                /\ endorsement' = endorsement
                /\ registry_stats' =
                      [registry_stats EXCEPT ![REGISTRY].total_agents = @ + 1]

C3_RegisterAgent == [][C3_Registered]_vars

(* C registered at time 1 next to the profiles of A and B and the         *)
(* endorsement of A by B                                                   *)
C3_Witness ==
    /\ result.op = "register_agent" /\ result.err = Ok /\ result.signer = "C"
    /\ agent_profile["C"].registered_at = 1
    /\ agent_profile["A"].endorsements_received = 1
    /\ <<"B", "A", "rust">> \in DOMAIN endorsement
    /\ registry_stats[REGISTRY].total_agents = 3

----------------------------------------------------------------------------
(* C4: there is at most one AgentProfile per identity: register_agent by   *)
(* an owner that has a profile fails because the address is occupied       *)
(* (AlreadyRegistered), and the profile and total_agents stay as they are. *)

C4_AtAddress ==
    \A a \in DOMAIN agent_profile : agent_profile[a].wallet = a

C4_Rejected ==
    clock' = clock /\ result'.op = "register_agent" =>
        \A owner \in Newcomers, name \in NameInputs, metadata_uri \in UriInputs,
           skills \in SkillsInputs :
            owner \in DOMAIN agent_profile
            /\ register_agent(owner, name, metadata_uri, skills)
                => result'.err = "AccountAlreadyInUse" /\ UNCHANGED store

C4_OneProfile == []C4_AtAddress /\ [][C4_Rejected]_vars

(* a second register_agent was rejected; A has been endorsed and has      *)
(* changed its profile since it registered                                 *)
C4_Witness ==
    /\ result.op = "register_agent" /\ result.err = "AccountAlreadyInUse"
    /\ agent_profile["A"].metadata_uri = "ipfs://b"
    /\ agent_profile["A"].reputation = BaseReputation + ReputationStep

----------------------------------------------------------------------------
(* C5: endorse followed by revoke is a round trip on the target: when B    *)
(* endorses a skill of A and then revokes the record with no instruction   *)
(* in between, A's reputation and endorsements_received are what they were *)
(* before the endorsement, the record is gone and B can endorse the skill  *)
(* again at once.                                                          *)

EndorseThenRevoke ==
    /\ result.op = "endorse_skill" /\ result.err = Ok
    /\ Committed("revoke_endorsement")
    /\ result'.signer = result.signer
    /\ result'.target = result.target
    /\ result'.skill = result.skill

RoundTrip(reputation) ==
    EndorseThenRevoke =>
        /\ agent_profile'[result.target].reputation = reputation
        /\ agent_profile'[result.target].endorsements_received = result.before[2]
        /\ <<result.signer, result.target, result.skill>> \notin DOMAIN endorsement'
        /\ EndorseAgain'.err = Ok

(* the claim as stated: the reputation is the one before the endorsement *)
C5_AsStated == [][RoundTrip(result.before[1])]_vars

(* C5 amended: the round trip restores the reputation unless the target    *)
(* was at 100 before the endorsement: the endorsement is clamped at 100,   *)
(* the revocation still subtracts 2, and the target ends at 98.            *)
C5_RoundTrip ==
    [][RoundTrip(Min(result.before[1], MaxReputation - ReputationStep))]_vars

(* the fresh profiles: B endorsed A (50 -> 52, 0 -> 1) and revoked at once *)
(* (52 -> 50, 1 -> 0); no record is left and B can endorse again           *)
C5_Witness ==
    /\ JustRevoked /\ ntx = MaxTx
    /\ result.before = <<BaseReputation + ReputationStep, 1>>
    /\ agent_profile[result.target].reputation = BaseReputation
    /\ agent_profile[result.target].endorsements_received = 0
    /\ DOMAIN endorsement = {}
    /\ EndorseAgain.err = Ok

----------------------------------------------------------------------------
(* C6: a successful endorse_skill(endorser, target, skill) creates the     *)
(* record (endorser, target, skill, now), adds 1 to the target's           *)
(* endorsements_received, sets its reputation to min(100, reputation + 2)  *)
(* and sets last_active of the target and of the endorser to now; it       *)
(* changes nothing else of the two profiles, no other profile and not      *)
(* RegistryStats.                                                          *)

C6_Endorsed ==
    Committed("endorse_skill") =>
        LET e == result'.signer
            t == result'.target
            addr == <<result'.signer, result'.target, result'.skill>>
        IN  /\ addr \notin DOMAIN endorsement
            /\ DOMAIN endorsement' = DOMAIN endorsement \cup {addr}
            /\ endorsement'[addr] = [endorser |-> e, target |-> t,
                                     skill |-> result'.skill, timestamp |-> clock]
            /\ \A a \in DOMAIN endorsement : endorsement'[a] = endorsement[a]
            /\ DOMAIN agent_profile' = DOMAIN agent_profile
            /\ agent_profile'[t] =
                  [agent_profile[t] EXCEPT
                      !.endorsements_received = @ + 1,
                      !.reputation = IF @ + 2 > 100 THEN 100 ELSE @ + 2,
                      !.last_active = clock]
            /\ agent_profile'[e] = [agent_profile[e] EXCEPT !.last_active = clock]
            /\ \A a \in DOMAIN agent_profile \ {e, t} :
                  agent_profile'[a] = agent_profile[a]
            /\ registry_stats' = registry_stats

C6_EndorseSkill == [][C6_Endorsed]_vars

(* C registered at time 0 and endorsed A, which B had endorsed, at time 1 *)
C6_Witness ==
    /\ result.op = "endorse_skill" /\ result.err = Ok
    /\ result.signer = "C" /\ result.target = "A"
    /\ agent_profile["C"].registered_at = 0 /\ agent_profile["C"].last_active = 1
    /\ agent_profile["A"].last_active = 1
    /\ agent_profile["A"].endorsements_received = 2
    /\ agent_profile["B"].last_active = 0

----------------------------------------------------------------------------
(* C7: endorse_skill by an identity on its own profile fails with          *)
(* CannotEndorseSelf, whether or not the skill is declared, creates no     *)
(* record and changes no profile; no reachable state holds a record whose  *)
(* endorser is its target.                                                 *)

C7_NoSelfRecord ==
    \A a \in DOMAIN endorsement : endorsement[a].endorser # endorsement[a].target

C7_Rejected ==
    clock' = clock /\ result'.op = "endorse_skill" =>
        \A e \in DOMAIN agent_profile, s \in SkillSeeds :
            endorse_skill(e, e, e, s)
                => result'.err = "CannotEndorseSelf" /\ UNCHANGED store

C7_CannotEndorseSelf == []C7_NoSelfRecord /\ [][C7_Rejected]_vars

(* an identity that declares "rust" was refused to endorse it itself *)
C7_Witness ==
    /\ result.op = "endorse_skill" /\ result.err = "CannotEndorseSelf"
    /\ \E e \in DOMAIN agent_profile :
          /\ Declared(agent_profile[e], "rust")
          /\ endorse_skill_run(e, e, e, "rust").err = "CannotEndorseSelf"

----------------------------------------------------------------------------
(* C8: endorse_skill(endorser, target, skill) fails with SkillNotDeclared  *)
(* whenever the target's skills do not contain the skill, also after the   *)
(* target removed it with update_profile; no record is created and the     *)
(* target is unchanged.                                                    *)

Undeclared(e, t, s) ==
    /\ e \in DOMAIN agent_profile /\ t \in DOMAIN agent_profile /\ e # t
    /\ ~Contains(agent_profile[t].skills, s)

C8_Unchanged ==
    clock' = clock /\ result'.op = "endorse_skill" =>
        \A e \in Identity, t \in Identity, s \in SkillSeeds :
            Undeclared(e, t, s) /\ endorse_skill(e, e, t, s)
                => Aborts(result'.err) /\ UNCHANGED store

(* the claim as stated *)
C8_AlwaysSkillNotDeclared ==
    \A e \in Identity, t \in Identity, s \in SkillSeeds :
        Undeclared(e, t, s) => endorse_skill_run(e, e, t, s).err = "SkillNotDeclared"

C8_Error ==
    \A e \in Identity, t \in Identity, s \in SkillSeeds :
        Undeclared(e, t, s) =>
            endorse_skill_run(e, e, t, s).err =
                IF <<e, t, s>> \in DOMAIN endorsement
                THEN "AccountAlreadyInUse" ELSE "SkillNotDeclared"

----------------------------------------------------------------------------
(* C9: only a profile's wallet can change its metadata_uri or skills: an   *)
(* update_profile signed by another identity is rejected by the account    *)
(* constraints (Unauthorized) and leaves the profile unchanged; in every   *)
(* step that changes a profile's metadata_uri or skills the instruction is *)
(* an update_profile signed by the profile's wallet.                       *)

NotAuthorized == {"Unauthorized", "ConstraintSeeds", "ConstraintHasOne"}

C9_Rejected ==
    clock' = clock /\ result'.op = "update_profile" =>
        \A owner \in Newcomers, p \in DOMAIN agent_profile, in \in UpdateInputs :
            agent_profile[p].wallet # owner /\ update_profile(owner, p, in[1], in[2])
                => result'.err \in NotAuthorized /\ UNCHANGED store

C9_ByWallet ==
    \A a \in DOMAIN agent_profile :
        \/ agent_profile'[a].metadata_uri # agent_profile[a].metadata_uri
        \/ agent_profile'[a].skills # agent_profile[a].skills
        => /\ Committed("update_profile")
           /\ result'.target = a
           /\ result'.signer = agent_profile[a].wallet

----------------------------------------------------------------------------
(* C10: only the endorser stored in an Endorsement record can destroy it:  *)
(* a revoke_endorsement signed by another identity is rejected by the      *)
(* account constraints (Unauthorized) and leaves the record and the target *)
(* unchanged; a reputation goes down, and a record disappears, only in a   *)
(* revoke_endorsement signed by the endorser of a record on that target.   *)

C10_Rejected ==
    clock' = clock /\ result'.op = "revoke_endorsement" =>
        \A signer \in Newcomers, addr \in DOMAIN endorsement, t \in DOMAIN agent_profile :
            endorsement[addr].endorser # signer /\ revoke_endorsement(signer, addr, t)
                => result'.err \in NotAuthorized /\ UNCHANGED store

C10_ByEndorser ==
    /\ \A addr \in DOMAIN endorsement \ DOMAIN endorsement' :
          /\ Committed("revoke_endorsement")
          /\ result'.signer = endorsement[addr].endorser
    /\ \A a \in DOMAIN agent_profile :
          agent_profile'[a].reputation < agent_profile[a].reputation =>
              /\ Committed("revoke_endorsement")
              /\ \E addr \in DOMAIN endorsement \ DOMAIN endorsement' :
                    /\ endorsement[addr].endorser = result'.signer
                    /\ endorsement[addr].target = a

----------------------------------------------------------------------------
(* C11: an instruction that fails leaves every record as it was and logs   *)
(* no event; in particular update_profile with a valid metadata_uri and    *)
(* more than 10 skills fails with TooManySkills, leaves metadata_uri,      *)
(* skills and last_active of the profile as they were and emits no         *)
(* ProfileUpdated event.                                                   *)

C11_Failed ==
    clock' = clock /\ Aborts(result'.err) => UNCHANGED store /\ emitted' = <<>>

C11_TooManySkills ==
    clock' = clock /\ result'.op = "update_profile" =>
        \A owner \in DOMAIN agent_profile :
            update_profile(owner, owner, Some("ipfs://b"), Some(Skills11)) =>
                /\ result'.err = "TooManySkills"
                /\ agent_profile'[owner].metadata_uri = agent_profile[owner].metadata_uri
                /\ agent_profile'[owner].skills = agent_profile[owner].skills
                /\ agent_profile'[owner].last_active = agent_profile[owner].last_active
                /\ emitted' = <<>>

----------------------------------------------------------------------------
(* C12: in every reachable state every profile has a name of at most 32    *)
(* bytes, a metadata_uri of at most 200, at most 10 skills, and no skill   *)
(* longer than 32: register_agent and update_profile never store a skills  *)
(* list with a longer entry.                                               *)

C12_Bounded ==
    \A a \in DOMAIN agent_profile :
        /\ Len(agent_profile[a].name) <= 32
        /\ Len(agent_profile[a].metadata_uri) <= 200
        /\ Len(agent_profile[a].skills) <= 10

C12_SkillBounded ==
    \A a \in DOMAIN agent_profile :
        \A i \in 1..Len(agent_profile[a].skills) :
            Len(agent_profile[a].skills[i]) <= 32

C12_FieldBounds == C12_Bounded /\ C12_SkillBounded

----------------------------------------------------------------------------
(* C13: in every reachable state total_agents of RegistryStats is the      *)
(* number of AgentProfile records (no profile exists before the registry   *)
(* does); total_agents never decreases and changes only in a successful    *)
(* register_agent, by exactly 1; the RegistryStats record is never         *)
(* destroyed.                                                              *)

C13_Count ==
    IF REGISTRY \in DOMAIN registry_stats
    THEN registry_stats[REGISTRY].total_agents = Cardinality(DOMAIN agent_profile)
    ELSE DOMAIN agent_profile = {}

C13_Monotonic ==
    REGISTRY \in DOMAIN registry_stats =>
        /\ REGISTRY \in DOMAIN registry_stats'
        /\ registry_stats'[REGISTRY].total_agents >= registry_stats[REGISTRY].total_agents
        /\ registry_stats'[REGISTRY].total_agents # registry_stats[REGISTRY].total_agents
              => /\ Committed("register_agent")
                 /\ registry_stats'[REGISTRY].total_agents
                       = registry_stats[REGISTRY].total_agents + 1

C13_TotalAgents == []C13_Count /\ [][C13_Monotonic]_vars

(* the registry was initialized and A and B have registered *)
C13_Witness ==
    /\ result.op = "register_agent" /\ result.err = Ok
    /\ REGISTRY \in DOMAIN registry_stats
    /\ registry_stats[REGISTRY].total_agents = 2
    /\ DOMAIN agent_profile = {"A", "B"}

----------------------------------------------------------------------------
(* C14: total_endorsements of RegistryStats is set to 0 by                 *)
(* initialize_registry and no instruction changes it: it is 0 in every     *)
(* reachable state, whatever endorse_skill and revoke_endorsement do.      *)

C14_Zero ==
    REGISTRY \in DOMAIN registry_stats =>
        registry_stats[REGISTRY].total_endorsements = 0

C14_Initialized ==
    Committed("initialize_registry") =>
        registry_stats'[REGISTRY].total_endorsements = 0

C14_Unchanged ==
    REGISTRY \in DOMAIN registry_stats =>
        registry_stats'[REGISTRY].total_endorsements
            = registry_stats[REGISTRY].total_endorsements

C14_TotalEndorsements == []C14_Zero /\ [][C14_Initialized /\ C14_Unchanged]_vars

(* A has endorsed B next to B's endorsement of A: two records, none counted *)
C14_Witness ==
    /\ result.op = "endorse_skill" /\ result.err = Ok
    /\ Cardinality(DOMAIN endorsement) = 2
    /\ registry_stats[REGISTRY].total_endorsements = 0

----------------------------------------------------------------------------
(* C15: initialize_registry succeeds at most once: it succeeds only while  *)
(* no RegistryStats exists and then creates it with total_agents = 0,      *)
(* total_endorsements = 0 and authority = the caller; once the record      *)
(* exists every call fails because the address is occupied                 *)
(* (AlreadyInitialized) and total_agents and authority stay as they are.   *)

C15_First ==
    Committed("initialize_registry") =>
        /\ REGISTRY \notin DOMAIN registry_stats
        /\ registry_stats' =
              (REGISTRY :> [total_agents |-> 0, total_endorsements |-> 0,
                            authority |-> result'.signer])
        /\ UNCHANGED <<agent_profile, endorsement>>

C15_Rejected ==
    clock' = clock /\ result'.op = "initialize_registry"
    /\ REGISTRY \in DOMAIN registry_stats
        => result'.err = "AccountAlreadyInUse" /\ UNCHANGED store

C15_Authority ==
    REGISTRY \in DOMAIN registry_stats =>
        /\ REGISTRY \in DOMAIN registry_stats'
        /\ registry_stats'[REGISTRY].authority = registry_stats[REGISTRY].authority

C15_InitializeOnce == [][C15_First /\ C15_Rejected /\ C15_Authority]_vars

(* a second initialize_registry was rejected when two agents were counted *)
C15_Witness ==
    /\ result.op = "initialize_registry" /\ result.err = "AccountAlreadyInUse"
    /\ registry_stats[REGISTRY].total_agents = 2
    /\ registry_stats[REGISTRY].authority = "A"
    /\ initialize_registry_run("B").err = "AccountAlreadyInUse"

----------------------------------------------------------------------------
(* C16: revoke_endorsement for an (endorser, target, skill) at whose       *)
(* address no Endorsement record exists, never created or already revoked, *)
(* fails with the error of a missing record (RecordNotFound), not with the *)
(* one of an occupied address or of a wrong caller, and leaves the target  *)
(* unchanged; a record is revoked at most once per endorsement.            *)

NotFound == "AccountNotInitialized"

C16_Missing ==
    \A endorser \in Newcomers, t \in Newcomers,
       addr \in Newcomers \X Newcomers \X SkillSeeds :
        addr \notin DOMAIN endorsement =>
            LET r == revoke_endorsement_run(endorser, addr, t)
            IN  /\ r.err = NotFound
                /\ r.err \notin NotAuthorized \cup {"AccountAlreadyInUse"}
                /\ r.profiles = agent_profile

(* a revoke_endorsement that removes no record is rejected and changes     *)
(* nothing                                                                 *)
C16_Rejected ==
    clock' = clock /\ result'.op = "revoke_endorsement"
    /\ DOMAIN endorsement' = DOMAIN endorsement
        => Aborts(result'.err) /\ UNCHANGED store

RevokeAgain ==
    revoke_endorsement_run(result.signer,
                           <<result.signer, result.target, result.skill>>,
                           result.target)

C16_Once ==
    JustRevoked =>
        /\ <<result.signer, result.target, result.skill>> \notin DOMAIN endorsement
        /\ RevokeAgain.err = NotFound

C16_RecordNotFound == []C16_Missing /\ []C16_Once /\ [][C16_Rejected]_vars

(* B revoked its endorsement of A, and a second revoke_endorsement was     *)
(* refused: A is back at its base reputation with no endorsement           *)
C16_Witness ==
    /\ result.op = "revoke_endorsement" /\ result.err = NotFound
    /\ <<"B", "A", "rust">> \notin DOMAIN endorsement
    /\ revoke_endorsement_run("B", <<"B", "A", "rust">>, "A").err = NotFound
    /\ agent_profile["A"].reputation = BaseReputation
    /\ agent_profile["A"].endorsements_received = 0

----------------------------------------------------------------------------
(* C17: a successful update_profile replaces only the fields supplied:     *)
(* metadata_uri when it is present, skills when they are present, and      *)
(* last_active always; wallet, name, reputation, endorsements_received and *)
(* registered_at of the profile, every other profile, every endorsement    *)
(* record and RegistryStats stay as they are.                              *)

C17_Updated ==
    Committed("update_profile") =>
        LET p == result'.target
            old == agent_profile[p]
        IN  \A in \in UpdateInputs \cup MoreUpdateInputs :
                update_profile(result'.signer, p, in[1], in[2]) =>
                    /\ agent_profile' = [agent_profile EXCEPT ![p] =
                          [wallet |-> old.wallet,
                           name |-> old.name,
                           metadata_uri |-> IF in[1] = None THEN old.metadata_uri
                                            ELSE in[1][1],
                           skills |-> IF in[2] = None THEN old.skills ELSE in[2][1],
                           reputation |-> old.reputation,
                           endorsements_received |-> old.endorsements_received,
                           registered_at |-> old.registered_at,
                           last_active |-> clock]]
                    /\ UNCHANGED <<registry_stats, endorsement>>

C17_UpdateProfile == [][C17_Updated]_vars

(* A was endorsed at time 0 and replaced its metadata_uri at time 1: its   *)
(* skills, reputation and endorsements_received are what they were         *)
C17_Witness ==
    /\ result.op = "update_profile" /\ result.err = Ok /\ result.signer = "A"
    /\ agent_profile["A"].metadata_uri = "ipfs://b"
    /\ agent_profile["A"].skills = <<"rust", "go">>
    /\ agent_profile["A"].reputation = BaseReputation + ReputationStep
    /\ agent_profile["A"].endorsements_received = 1
    /\ agent_profile["A"].registered_at = 0
    /\ agent_profile["A"].last_active = 1
    /\ DOMAIN endorsement = {<<"B", "A", "rust">>}

----------------------------------------------------------------------------
(* C18: a successful revoke_endorsement takes 1 from the target's          *)
(* endorsements_received and 2 from its reputation, both with a floor at   *)
(* 0, destroys the Endorsement record and changes nothing else: last_active *)
(* of the target and of the endorser stay as they are.                     *)

C18_Revoked ==
    Committed("revoke_endorsement") =>
        LET t == result'.target
            addr == <<result'.signer, t, result'.skill>>
            old == agent_profile[t]
        IN  /\ addr \in DOMAIN endorsement
            /\ endorsement' = [a \in DOMAIN endorsement \ {addr} |-> endorsement[a]]
            /\ agent_profile' = [agent_profile EXCEPT ![t] =
                  [old EXCEPT
                      !.endorsements_received = IF @ >= 1 THEN @ - 1 ELSE 0,
                      !.reputation = IF @ >= 2 THEN @ - 2 ELSE 0]]
            /\ agent_profile'[t].last_active = old.last_active
            /\ agent_profile'[result'.signer].last_active
                  = agent_profile[result'.signer].last_active
            /\ UNCHANGED registry_stats

(* the floor of the counter, on a profile that has received nothing *)
C18_Floor ==
    \A a \in DOMAIN agent_profile :
        LET none == [agent_profile[a] EXCEPT !.endorsements_received = 0]
        IN  Revoked(none).endorsements_received = 0

C18_RevokeEndorsement == []C18_Floor /\ [][C18_Revoked]_vars

(* at time 1 A revoked its endorsement of B, which had reputation 0: B     *)
(* stays at 0, has no endorsement left and keeps its last_active, and so   *)
(* does A                                                                  *)
C18_Witness ==
    /\ result.op = "revoke_endorsement" /\ result.err = Ok
    /\ result.signer = "A" /\ result.target = "B"
    /\ result.before = <<0, 1>>
    /\ clock = 1
    /\ agent_profile["B"].reputation = 0
    /\ agent_profile["B"].endorsements_received = 0
    /\ agent_profile["B"].last_active = 0
    /\ agent_profile["A"].last_active = 0
    /\ <<"A", "B", "rust">> \notin DOMAIN endorsement

----------------------------------------------------------------------------
(* C19: endorse_skill evaluates its failure conditions in the order skill  *)
(* length, self-endorsement, skill declared on the target, creation of the *)
(* record: when the record of (endorser, target, skill) exists and the     *)
(* target has removed the skill, a repeated endorse_skill fails with       *)
(* SkillNotDeclared rather than DuplicateEndorsement.                      *)

(* the kind of an error: a skill too long to be a seed is a skill too long *)
Kind(err) == IF err = "MaxSeedLengthExceeded" THEN "SkillNameTooLong" ELSE err

Occupied(e, t, s) == <<e, agent_profile[t].wallet, s>> \in DOMAIN endorsement

(* the error of endorse_skill by a registered endorser on a registered     *)
(* target when creation is the last step                                   *)
CreationLast(e, t, s) ==
    IF Len(s) > 32 THEN "SkillNameTooLong"
    ELSE IF e = agent_profile[t].wallet THEN "CannotEndorseSelf"
    ELSE IF ~Contains(agent_profile[t].skills, s) THEN "SkillNotDeclared"
    ELSE IF Occupied(e, t, s) THEN "AccountAlreadyInUse"
    ELSE Ok

CreationFirst(e, t, s) ==
    IF Len(s) > 32 THEN "SkillNameTooLong"
    ELSE IF Occupied(e, t, s) THEN "AccountAlreadyInUse"
    ELSE IF e = agent_profile[t].wallet THEN "CannotEndorseSelf"
    ELSE IF ~Contains(agent_profile[t].skills, s) THEN "SkillNotDeclared"
    ELSE Ok

----------------------------------------------------------------------------
(* C20: in every reachable state endorsements_received of each profile is  *)
(* the number of Endorsement records whose target is the profile's wallet, *)
(* whatever endorsers endorse and revoke and whatever skills the target    *)
(* removes; a revoke_endorsement never meets a counter of 0.               *)

Received(wallet) == {a \in DOMAIN endorsement : endorsement[a].target = wallet}

C20_Counted ==
    \A a \in DOMAIN agent_profile :
        agent_profile[a].endorsements_received
            = Cardinality(Received(agent_profile[a].wallet))

C20_FloorNotReached ==
    Committed("revoke_endorsement") =>
        agent_profile[result'.target].endorsements_received >= 1

C20_EndorsementsReceived == []C20_Counted /\ [][C20_FloorNotReached]_vars

(* B and C have endorsed A, and A does not declare "rust" any more *)
C20_Witness ==
    /\ agent_profile["A"].endorsements_received = 2
    /\ Received("A") = {<<"B", "A", "rust">>, <<"C", "A", "go">>}
    /\ ~Contains(agent_profile["A"].skills, "rust")

====
